---- MODULE Spec2Model ----
(***************************************************************************)
(* A model of rgb-std's Disclosure (src/src/disclosure.rs): the aggregate  *)
(* of anchored transition bundles, state extensions, an optional comment   *)
(* and a signature map, with its commitment encoding, the two tagged       *)
(* hashes derived from it, the three concealment traversals and the        *)
(* mutation / signature operations.                                        *)
(*                                                                         *)
(* A BTreeMap that feeds the commitment is a sequence of <<key, value>>    *)
(* pairs kept sorted by key with one pair per key; the signature map,      *)
(* which is never encoded into a hash, is a function on its key set.       *)
(* Option<T> is a sequence of length 0 (None) or 1 (Some).                 *)
(* A hash is injective on its input: a digest is the pair of the midstate  *)
(* its engine starts from and the bytes fed to the engine. The midstates   *)
(* themselves are computed with SHA-256.                                   *)
(***************************************************************************)
EXTENDS Integers, Sequences, FiniteSets, TLC

(***************************************************************************)
(* Bounds of the model.                                                    *)
(***************************************************************************)
\* number of operations applied to the disclosure in one behaviour
MaxSteps == 3
\* longest extension sequence kept under one contract id
MaxExtLen == 2

(***************************************************************************)
(* Universes the operations draw their arguments from.                     *)
(***************************************************************************)
AnchorIds == {1, 2}
ContractIds == {1, 2}
SealIds == {1, 2}
CommentTexts == {1, 2}
PubKeys == {"pk1", "pk2"}
SigValues == {"sigA", "sigB"}

None == << >>
Some(x) == << x >>

(***************************************************************************)
(* Helpers on sequences and sets.                                          *)
(***************************************************************************)
RECURSIVE Flatten(_)
Flatten(ss) == IF ss = << >> THEN << >> ELSE Head(ss) \o Flatten(Tail(ss))

RECURSIVE SumSeq(_)
SumSeq(s) == IF s = << >> THEN 0 ELSE Head(s) + SumSeq(Tail(s))

RECURSIVE SortedSeq(_)
SortedSeq(S) ==
    IF S = {} THEN << >>
    ELSE LET m == CHOOSE x \in S : \A y \in S : x <= y
         IN  << m >> \o SortedSeq(S \ {m})

(***************************************************************************)
(* BTreeMap<K, V> as a key-sorted sequence of pairs. An id (AnchorId,       *)
(* ContractId, NodeId) is an integer; a transition is ordered by its data, *)
(* then by the variant of its assignment (the derived Ord).                *)
(***************************************************************************)
\* the assignment's variant: Confidential, Revealed, ConfidentialSeal,
\* ConfidentialState
Variant(t) ==
    IF t.seal THEN (IF t.state THEN 1 ELSE 3) ELSE (IF t.state THEN 2 ELSE 0)

TransOrd(t) == t.node * 4 + Variant(t)


MapKeys(m) == { m[i][1] : i \in 1..Len(m) }

MapContains(m, k) == \E i \in 1..Len(m) : m[i][1] = k

MapGet(m, k) == m[CHOOSE i \in 1..Len(m) : m[i][1] = k][2]

\* the keyed content of a map, forgetting the order of its pairs
MapContent(m) == { m[i] : i \in 1..Len(m) }

\* faulty variant of BTreeInsert: a new key is pushed at the end, so the
\* pairs stand in insertion order
BTreeInsertUnsorted(m, k, v) ==
    IF MapContains(m, k)
    THEN [i \in 1..Len(m) |-> IF m[i][1] = k THEN <<k, v>> ELSE m[i]]
    ELSE Append(m, <<k, v>>)

\* BTreeMap::insert: replaces the value of a present key, otherwise places
\* the pair at its position in key order
BTreeInsert(m, k, v) ==
    IF MapContains(m, k)
    THEN [i \in 1..Len(m) |-> IF m[i][1] = k THEN <<k, v>> ELSE m[i]]
    ELSE SelectSeq(m, LAMBDA e : e[1] < k)
           \o << <<k, v>> >>
           \o SelectSeq(m, LAMBDA e : e[1] > k)

\* BTreeMap::extend / collect: insert the pairs one by one, in their order
RECURSIVE BTreeExtend(_, _)
BTreeExtend(m, pairs) ==
    IF pairs = << >> THEN m
    ELSE BTreeExtend(BTreeInsert(m, Head(pairs)[1], Head(pairs)[2]), Tail(pairs))

\* collect::<BTreeMap<Transition, _>>() of (transition, inputs) pairs into
\* the map m: each pair is inserted at the place of its transition, a pair
\* of an equal transition replacing the one collected before
RECURSIVE CollectTransitions(_, _)
CollectTransitions(m, pairs) ==
    IF pairs = << >> THEN m
    ELSE LET t == Head(pairs)[1]
             placed == IF MapContains(m, t)
                       THEN [i \in 1..Len(m) |-> IF m[i][1] = t THEN Head(pairs) ELSE m[i]]
                       ELSE SelectSeq(m, LAMBDA e : TransOrd(e[1]) < TransOrd(t))
                              \o << Head(pairs) >>
                              \o SelectSeq(m, LAMBDA e : TransOrd(e[1]) > TransOrd(t))
         IN  CollectTransitions(placed, Tail(pairs))

\* BTreeMap::remove on the signature map
MapRemove(f, k) == [x \in (DOMAIN f) \ {k} |-> f[x]]

EmptySignatures == [x \in {} |-> "sigA"]

(***************************************************************************)
(* Collaborators from rgb-core / lnpbp4, by the interface the disclosure   *)
(* uses.                                                                   *)
(*                                                                         *)
(* A transition carries one assignment: a seal (identified by sid) and a   *)
(* state, each revealed or concealed.                                      *)
(***************************************************************************)
Transition(node, sid, seal, state) ==
    [node |-> node, sid |-> sid, seal |-> seal, state |-> state]

\* ConcealSeals for a transition: conceals its seal when listed
TransitionConcealSeals(t, seals) ==
    IF t.seal /\ t.sid \in seals
    THEN [transition |-> [t EXCEPT !.seal = FALSE], count |-> 1]
    ELSE [transition |-> t, count |-> 0]

\* ConcealState for a transition: conceals its state unless its seal is listed
TransitionConcealStateExcept(t, seals) ==
    IF t.state /\ t.sid \notin seals
    THEN [transition |-> [t EXCEPT !.state = FALSE], count |-> 1]
    ELSE [transition |-> t, count |-> 0]

\* TransitionBundle: the transitions known in full (with their inputs) and
\* the ones known by node id only
Bundle(revealed, concealed) == [revealed |-> revealed, concealed |-> concealed]

\* TransitionBundle::revealed_iter
RevealedIter(bundle) == bundle.revealed

\* From<BTreeMap<Transition, BTreeSet<u16>>> for TransitionBundle
BundleFrom(revealed) == Bundle(revealed, << >>)

\* Anchor<MerkleBlock>: its id and the contracts whose leaves the
\* multi-proof reveals
Anchor(id, revealed) == [id |-> id, revealed |-> revealed]

AnchorId(a) == a.id

\* Anchor::merge_reveal for anchors of one id: reveals what either reveals
MergeReveal(a, b) == Anchor(a.id, a.revealed \cup b.revealed)

\* Anchor::conceal_anchors_except: keeps the leaves of the given contracts;
\* fails when one of them is not a revealed leaf, leaving the anchor as is
AnchorConcealExcept(a, contracts) ==
    IF contracts \subseteq a.revealed
    THEN [ok |-> TRUE, anchor |-> Anchor(a.id, a.revealed \cap contracts),
          count |-> Cardinality(a.revealed \ contracts)]
    ELSE [ok |-> FALSE, anchor |-> a, count |-> 0]

(***************************************************************************)
(* Strict encoding: a sequence of integers. A collection is its length     *)
(* followed by its items in stored order.                                  *)
(***************************************************************************)
EncodeSet(S) == << Cardinality(S) >> \o SortedSeq(S)

EncodeAnchor(a) == << a.id >> \o EncodeSet(a.revealed)

EncodeTransition(t) == << t.node, t.sid, Variant(t) >>

EncodeBundle(b) ==
    << Len(b.revealed) >>
      \o Flatten([i \in 1..Len(b.revealed) |->
                    EncodeTransition(b.revealed[i][1]) \o EncodeSet(b.revealed[i][2])])
      \o << Len(b.concealed) >>
      \o Flatten([i \in 1..Len(b.concealed) |->
                    << b.concealed[i][1] >> \o EncodeSet(b.concealed[i][2])])

EncodeBundleMap(m) ==
    << Len(m) >> \o Flatten([i \in 1..Len(m) |-> << m[i][1] >> \o EncodeBundle(m[i][2])])

EncodeAnchoredBundles(m) ==
    << Len(m) >>
      \o Flatten([i \in 1..Len(m) |->
                    << m[i][1] >> \o EncodeAnchor(m[i][2][1]) \o EncodeBundleMap(m[i][2][2])])

EncodeExtensions(m) ==
    << Len(m) >> \o Flatten([i \in 1..Len(m) |-> << m[i][1], Len(m[i][2]) >> \o m[i][2]])

(***************************************************************************)
(* SHA-256 (FIPS 180-4) on 32-bit words, and the tagged-hash midstate.     *)
(* A word is a pair << high, low >> of 16-bit halves, a byte is 0..255.    *)
(***************************************************************************)
RECURSIVE Xor16(_, _)
Xor16(a, b) ==
    IF a = 0 THEN b ELSE IF b = 0 THEN a
    ELSE 2 * Xor16(a \div 2, b \div 2) + ((a + b) % 2)

RECURSIVE And16(_, _)
And16(a, b) ==
    IF a = 0 \/ b = 0 THEN 0
    ELSE 2 * And16(a \div 2, b \div 2) + ((a % 2) * (b % 2))

WordXor(x, y) == << Xor16(x[1], y[1]), Xor16(x[2], y[2]) >>

WordAnd(x, y) == << And16(x[1], y[1]), And16(x[2], y[2]) >>

WordNot(x) == << 65535 - x[1], 65535 - x[2] >>

\* wrapping addition modulo 2^32
WordAdd(x, y) ==
    LET low == x[2] + y[2]
    IN  << (x[1] + y[1] + (low \div 65536)) % 65536, low % 65536 >>

\* x >> n for 0 < n < 16
Shr(x, n) ==
    << x[1] \div (2 ^ n), (x[2] \div (2 ^ n)) + (x[1] % (2 ^ n)) * (2 ^ (16 - n)) >>

\* x rotated right by n, 0 < n < 32
Rotr(x, n) ==
    LET y == IF n >= 16 THEN << x[2], x[1] >> ELSE x
        m == n % 16
    IN  IF m = 0 THEN y
        ELSE << (y[1] \div (2 ^ m)) + (y[2] % (2 ^ m)) * (2 ^ (16 - m)),
                (y[2] \div (2 ^ m)) + (y[1] % (2 ^ m)) * (2 ^ (16 - m)) >>

Xor3(x, y, z) == WordXor(WordXor(x, y), z)

\* the initial hash value
SHA256_H0 ==
    << <<27145, 58983>>, <<47975, 44677>>, <<15470, 62322>>, <<42319, 62778>>,
       <<20750, 21119>>, <<39685, 26764>>, <<8067, 55723>>, <<23520, 52505>> >>

\* the round constants
SHA256_K ==
    << <<17034, 12184>>, <<28983, 17553>>, <<46528, 64463>>, <<59829, 56229>>,
       <<14678, 49755>>, <<23025, 4593>>, <<37439, 33444>>, <<43804, 24277>>,
       <<55303, 43672>>, <<4739, 23297>>, <<9265, 34238>>, <<21772, 32195>>,
       <<29374, 23924>>, <<32990, 45566>>, <<39900, 1703>>, <<49563, 61812>>,
       <<58523, 27073>>, <<61374, 18310>>, <<4033, 40390>>, <<9228, 41420>>,
       <<11753, 11375>>, <<19060, 33962>>, <<23728, 43484>>, <<30457, 35034>>,
       <<38974, 20818>>, <<43057, 50797>>, <<45059, 10184>>, <<48985, 32711>>,
       <<50912, 3059>>, <<54695, 37191>>, <<1738, 25425>>, <<5161, 10599>>,
       <<10167, 2693>>, <<11803, 8504>>, <<19756, 28156>>, <<21304, 3347>>,
       <<25866, 29524>>, <<30314, 2747>>, <<33218, 51502>>, <<37490, 11397>>,
       <<41663, 59553>>, <<43034, 26187>>, <<49739, 35696>>, <<51052, 20899>>,
       <<53650, 59417>>, <<54937, 1572>>, <<62478, 13701>>, <<4202, 41072>>,
       <<6564, 49430>>, <<7735, 27656>>, <<10056, 30540>>, <<13488, 48309>>,
       <<14620, 3251>>, <<20184, 43594>>, <<23452, 51791>>, <<26670, 28659>>,
       <<29839, 33518>>, <<30885, 25455>>, <<33992, 30740>>, <<36039, 520>>,
       <<37054, 65530>>, <<42064, 27883>>, <<48889, 41975>>, <<50801, 30962>> >>

\* the message schedule: the 16 words of the block extended to 64
RECURSIVE Schedule(_)
Schedule(w) ==
    IF Len(w) >= 64 THEN w
    ELSE LET t  == Len(w) + 1
             s0 == Xor3(Rotr(w[t - 15], 7), Rotr(w[t - 15], 18), Shr(w[t - 15], 3))
             s1 == Xor3(Rotr(w[t - 2], 17), Rotr(w[t - 2], 19), Shr(w[t - 2], 10))
         IN  Schedule(Append(w, WordAdd(WordAdd(w[t - 16], s0), WordAdd(w[t - 7], s1))))

\* one round on the working variables s = << a, b, c, d, e, f, g, h >>
Round(s, k, w) ==
    LET S1  == Xor3(Rotr(s[5], 6), Rotr(s[5], 11), Rotr(s[5], 25))
        ch  == WordXor(WordAnd(s[5], s[6]), WordAnd(WordNot(s[5]), s[7]))
        t1  == WordAdd(WordAdd(WordAdd(s[8], S1), WordAdd(ch, k)), w)
        S0  == Xor3(Rotr(s[1], 2), Rotr(s[1], 13), Rotr(s[1], 22))
        maj == Xor3(WordAnd(s[1], s[2]), WordAnd(s[1], s[3]), WordAnd(s[2], s[3]))
        t2  == WordAdd(S0, maj)
    IN  << WordAdd(t1, t2), s[1], s[2], s[3], WordAdd(s[4], t1), s[5], s[6], s[7] >>

\* the rounds from t on, applied to the eight working variables s with the
\* schedule w
RECURSIVE Rounds(_, _, _)
Rounds(s, w, t) ==
    IF t > Len(w) \/ Len(s) # 8 THEN s ELSE Rounds(Round(s, SHA256_K[t], w[t]), w, t + 1)

\* the compression of one 16-word block into the state h
Compress(h, block) ==
    LET s == Rounds(h, Schedule(block), 1)
    IN  [i \in 1..8 |-> WordAdd(h[i], s[i])]

\* big-endian words of a byte string and back
BytesToWords(b) ==
    [i \in 1..(Len(b) \div 4) |->
        << b[4 * i - 3] * 256 + b[4 * i - 2], b[4 * i - 1] * 256 + b[4 * i] >>]

WordsToBytes(ws) ==
    [i \in 1..(4 * Len(ws)) |->
        LET x == ws[(i + 3) \div 4]
            j == (i - 1) % 4
        IN  IF j = 0 THEN x[1] \div 256 ELSE IF j = 1 THEN x[1] % 256
            ELSE IF j = 2 THEN x[2] \div 256 ELSE x[2] % 256]

\* the padded block of a message shorter than 56 bytes
PadBlock(msg) ==
    msg \o << 128 >> \o [i \in 1..(61 - Len(msg)) |-> 0]
        \o << (8 * Len(msg)) \div 256, (8 * Len(msg)) % 256 >>

\* SHA-256 of a message shorter than 56 bytes
Sha256Digest(msg) == WordsToBytes(Compress(SHA256_H0, BytesToWords(PadBlock(msg))))

\* tagged_hash::Midstate::with(tag): the engine state after the 64 bytes
\* SHA256(tag) || SHA256(tag)
TaggedHashMidstate(tag) ==
    LET digest == Sha256Digest(tag)
    IN  WordsToBytes(Compress(SHA256_H0, BytesToWords(digest \o digest)))

\* the tag b"rgb:disclosure" of test_disclosure_id_midstate
TAG_DISCLOSURE_ID == << 114, 103, 98, 58, 100, 105, 115, 99, 108, 111, 115, 117, 114, 101 >>

\* the tag b"rgb:disclosure:sighash" of test_sighash_id_midstate
TAG_DISCLOSURE_SIG_HASH ==
    << 114, 103, 98, 58, 100, 105, 115, 99, 108, 111, 115, 117, 114, 101, 58, 115, 105, 103, 104, 97, 115, 104 >>

\* "rgb:disclosure"
MIDSTATE_DISCLOSURE_ID ==
    << 230, 128, 38, 245, 29, 214, 250, 240, 128, 2, 99, 77, 116, 110, 36, 100, 173, 187, 58,
       179, 73, 121, 157, 241, 96, 84, 44, 86, 141, 48, 95, 119 >>

\* faulty variant of MIDSTATE_DISCLOSURE_SIG_HASH: the bytes are those of the
\* disclosure id midstate
MidstateSigHashCopied == MIDSTATE_DISCLOSURE_ID

\* "rgb:disclosure:sighash"
MIDSTATE_DISCLOSURE_SIG_HASH ==
    << 140, 213, 168, 56, 70, 106, 191, 1, 83, 233, 1, 100, 218, 177, 13, 8, 222, 50, 200, 107,
       105, 5, 58, 80, 37, 77, 178, 238, 18, 252, 96, 98 >>

(***************************************************************************)
(* The disclosure and its hashes.                                          *)
(***************************************************************************)
VARIABLES version, anchored_bundles, extensions, comment, signatures,
          prev, last, steps

vars == << version, anchored_bundles, extensions, comment, signatures, prev, last, steps >>

Disclosure(v, ab, ext, c, sigs) ==
    [version |-> v, anchored_bundles |-> ab, extensions |-> ext,
     comment |-> c, signatures |-> sigs]

\* Disclosure::default(): version 0, empty maps, no comment
DefaultDisclosure == Disclosure(0, << >>, << >>, None, EmptySignatures)

\* the disclosure the program holds
Self == Disclosure(version, anchored_bundles, extensions, comment, signatures)

\* faulty variant of CommitEncode: commits to the anchor ids, not to what
\* the anchors and bundles currently reveal
CommitEncodeAnchorIds(d) ==
    << d.version, Len(d.anchored_bundles) >>
        \o [i \in 1..Len(d.anchored_bundles) |-> d.anchored_bundles[i][1]]
        \o EncodeExtensions(d.extensions)

\* faulty variant of CommitEncode: the comment is encoded too
CommitEncodeWithComment(d) ==
    << d.version >> \o EncodeAnchoredBundles(d.anchored_bundles)
                    \o EncodeExtensions(d.extensions)
                    \o << Len(d.comment) >> \o d.comment

\* CommitEncode for Disclosure: strict_encode_list!(version, anchored_bundles,
\* extensions)
CommitEncode(d) ==
    << d.version >> \o EncodeAnchoredBundles(d.anchored_bundles)
                    \o EncodeExtensions(d.extensions)

\* ConsensusCommit: the hash of the commitment encoding under DisclosureIdTag
DisclosureId(d) == [midstate |-> MIDSTATE_DISCLOSURE_ID, input |-> CommitEncode(d)]

\* sha256::Hash::hash(comment.as_bytes()), injective on the text
Sha256(text) == 256 + text

\* faulty variant of sig_hash: the comment is not fed to the engine
sig_hash_without_comment(d) ==
    [midstate |-> MIDSTATE_DISCLOSURE_SIG_HASH, input |-> CommitEncode(d)]

\* faulty variant of sig_hash: the commitment encoding is not fed to the engine
sig_hash_comment_only(d) ==
    [midstate |-> MIDSTATE_DISCLOSURE_SIG_HASH,
     input |-> IF d.comment # None THEN << Sha256(d.comment[1]) >> ELSE << >>]

\* Disclosure::sig_hash
sig_hash(d) ==
    [midstate |-> MIDSTATE_DISCLOSURE_SIG_HASH,
     input |-> CommitEncode(d)
                 \o (IF d.comment # None THEN << Sha256(d.comment[1]) >> ELSE << >>)]

(***************************************************************************)
(* The operations, each as a function of the disclosure and the arguments  *)
(* giving the disclosure after the call and the value returned.            *)
(***************************************************************************)
Result(d, ret) == [self |-> d, ret |-> ret]

Unit == << >>

Ok(n) == [ok |-> TRUE, count |-> n]

LeafNotKnown == [ok |-> FALSE, count |-> 0]

\* transition.conceal_seals(seals) in conceal_seals, and
\* transition.conceal_state_except(seals) in conceal_state_except
ConcealTransition(what, t, seals) ==
    IF what = "seals" THEN TransitionConcealSeals(t, seals)
    ELSE TransitionConcealStateExcept(t, seals)

\* the rebuilding of one bundle in conceal_seals / conceal_state_except: every
\* revealed transition is cloned and concealed, and the bundle is replaced by
\* the one collected from the concealed transitions with their inputs
ConcealBundle(what, bundle, seals) ==
    LET rs  == RevealedIter(bundle)
        res == [i \in 1..Len(rs) |-> ConcealTransition(what, rs[i][1], seals)]
    IN  [bundle |-> BundleFrom(CollectTransitions(<< >>,
                        [i \in 1..Len(rs) |-> << res[i].transition, rs[i][2] >>])),
         count  |-> SumSeq([i \in 1..Len(rs) |-> res[i].count])]

\* faulty variant of ConcealBundleMap: the count of each bundle overwrites
\* the count so far
ConcealBundleMapLastCount(what, map, seals) ==
    LET res == [i \in 1..Len(map) |-> ConcealBundle(what, map[i][2], seals)]
    IN  [map   |-> [i \in 1..Len(map) |-> << map[i][1], res[i].bundle >>],
         count |-> IF map = << >> THEN 0 ELSE res[Len(map)].count]

\* the inner loop over the bundles of one anchor
ConcealBundleMap(what, map, seals) ==
    LET res == [i \in 1..Len(map) |-> ConcealBundle(what, map[i][2], seals)]
    IN  [map   |-> [i \in 1..Len(map) |-> << map[i][1], res[i].bundle >>],
         count |-> SumSeq([i \in 1..Len(map) |-> res[i].count])]

\* the outer loop over anchored_bundles.values_mut(): the anchor is skipped
ConcealAnchoredBundles(what, ab, seals) ==
    LET res == [i \in 1..Len(ab) |-> ConcealBundleMap(what, ab[i][2][2], seals)]
    IN  [anchored_bundles |-> [i \in 1..Len(ab) |->
                                 << ab[i][1], << ab[i][2][1], res[i].map >> >>],
         count |-> SumSeq([i \in 1..Len(ab) |-> res[i].count])]

\* ConcealSeals for Disclosure
conceal_seals(d, seals) ==
    LET r == ConcealAnchoredBundles("seals", d.anchored_bundles, seals)
    IN  Result([d EXCEPT !.anchored_bundles = r.anchored_bundles], r.count)

\* ConcealState for Disclosure
conceal_state_except(d, seals) ==
    LET r == ConcealAnchoredBundles("state", d.anchored_bundles, seals)
    IN  Result([d EXCEPT !.anchored_bundles = r.anchored_bundles], r.count)

\* faulty variant of ConcealAnchorsFrom: an anchor that fails to narrow is
\* skipped and the loop goes on to return a count
RECURSIVE ConcealAnchorsSkipFailed(_, _, _, _)
ConcealAnchorsSkipFailed(ab, i, contracts, count) ==
    IF i > Len(ab) THEN [anchored_bundles |-> ab, ret |-> Ok(count)]
    ELSE LET r == AnchorConcealExcept(ab[i][2][1], contracts)
         IN  ConcealAnchorsSkipFailed(
                 [ab EXCEPT ![i] = << ab[i][1], << r.anchor, ab[i][2][2] >> >>],
                 i + 1, contracts, count + r.count)

\* faulty variant of ConcealAnchorsFrom: the entries whose anchor fails to
\* narrow are removed from the map
ConcealAnchorsDropFailed(ab, i, contracts, count) ==
    ConcealAnchorsSkipFailed(
        SelectSeq(ab, LAMBDA e : AnchorConcealExcept(e[2][1], contracts).ok),
        i, contracts, count)

\* faulty variant of ConcealAnchorsFrom: no anchor is narrowed unless all of
\* them can be
ConcealAnchorsAllOrNothing(ab, i, contracts, count) ==
    IF \A j \in i..Len(ab) : AnchorConcealExcept(ab[j][2][1], contracts).ok
    THEN ConcealAnchorsSkipFailed(ab, i, contracts, count)
    ELSE [anchored_bundles |-> ab, ret |-> LeafNotKnown]

\* the loop of conceal_anchors_except from entry i on, count concealed so far:
\* the anchors are narrowed in key order and the first failure returns at once
RECURSIVE ConcealAnchorsFrom(_, _, _, _)
ConcealAnchorsFrom(ab, i, contracts, count) ==
    IF i > Len(ab) THEN [anchored_bundles |-> ab, ret |-> Ok(count)]
    ELSE LET r == AnchorConcealExcept(ab[i][2][1], contracts)
         IN  IF ~r.ok
             THEN [anchored_bundles |-> [ab EXCEPT ![i] = << ab[i][1], << r.anchor, ab[i][2][2] >> >>],
                   ret |-> LeafNotKnown]
             ELSE ConcealAnchorsFrom(
                      [ab EXCEPT ![i] = << ab[i][1], << r.anchor, ab[i][2][2] >> >>],
                      i + 1, contracts, count + r.count)

\* ConcealAnchors for Disclosure
conceal_anchors_except(d, contracts) ==
    LET r == ConcealAnchorsFrom(d.anchored_bundles, 1, contracts, 0)
    IN  Result([d EXCEPT !.anchored_bundles = r.anchored_bundles], r.ret)

\* faulty variant of insert_anchored_bundles: an occupied entry is replaced
\* by the new anchor and bundles
insert_anchored_bundles_replace(d, anchor, bundles) ==
    Result([d EXCEPT !.signatures = EmptySignatures,
                     !.anchored_bundles =
                         BTreeInsert(d.anchored_bundles, AnchorId(anchor),
                                     << anchor, bundles >>)],
           Unit)

\* faulty variant of insert_anchored_bundles: an occupied entry gets a second
\* pair beside it
insert_anchored_bundles_duplicate(d, anchor, bundles) ==
    LET id == AnchorId(anchor)
        ab == d.anchored_bundles
    IN  Result([d EXCEPT !.signatures = EmptySignatures,
                         !.anchored_bundles =
                             IF ~MapContains(ab, id)
                             THEN BTreeInsert(ab, id, << anchor, bundles >>)
                             ELSE SelectSeq(ab, LAMBDA e : e[1] <= id)
                                    \o << << id, << anchor, bundles >> >> >>
                                    \o SelectSeq(ab, LAMBDA e : e[1] > id)],
               Unit)

\* Disclosure::insert_anchored_bundles
insert_anchored_bundles(d, anchor, bundles) ==
    LET id == AnchorId(anchor)
        ab == d.anchored_bundles
        entry == MapGet(ab, id)
        ab2 == IF ~MapContains(ab, id)
               THEN BTreeInsert(ab, id, << anchor, bundles >>)
               ELSE BTreeInsert(ab, id,
                        << MergeReveal(anchor, entry[1]),
                           BTreeExtend(entry[2], bundles) >>)
    IN  Result([d EXCEPT !.signatures = EmptySignatures, !.anchored_bundles = ab2], Unit)

\* faulty variant of insert_extensions: the given extensions replace the ones
\* stored under the contract id
insert_extensions_replace(d, contract_id, exts) ==
    Result([d EXCEPT !.signatures = EmptySignatures,
                     !.extensions = BTreeInsert(d.extensions, contract_id, exts)],
           Unit)

\* Disclosure::insert_extensions
insert_extensions(d, contract_id, exts) ==
    LET old == IF MapContains(d.extensions, contract_id)
               THEN MapGet(d.extensions, contract_id) ELSE << >>
    IN  Result([d EXCEPT !.signatures = EmptySignatures,
                         !.extensions = BTreeInsert(d.extensions, contract_id, old \o exts)],
               Unit)

\* faulty variant of change_comment: whether a comment exists is read after
\* the new one is stored
change_comment_reads_after(d, text) ==
    Result([d EXCEPT !.signatures = EmptySignatures, !.comment = Some(text)],
           Some(text) # None)

\* Disclosure::change_comment
change_comment(d, text) ==
    Result([d EXCEPT !.signatures = EmptySignatures, !.comment = Some(text)],
           d.comment # None)

\* faulty variant of remove_comment: the signatures are kept
remove_comment_keeps_signatures(d) ==
    Result([d EXCEPT !.comment = None], d.comment # None)

\* Disclosure::remove_comment
remove_comment(d) ==
    Result([d EXCEPT !.signatures = EmptySignatures, !.comment = None],
           d.comment # None)

\* faulty variant of add_signature: the map is reset to the new entry
add_signature_resets(d, pubkey, signature) ==
    Result([d EXCEPT !.signatures = [k \in {pubkey} |-> signature]],
           IF pubkey \in DOMAIN d.signatures THEN Some(d.signatures[pubkey]) ELSE None)

\* Disclosure::add_signature
add_signature(d, pubkey, signature) ==
    Result([d EXCEPT !.signatures =
                [k \in (DOMAIN d.signatures) \cup {pubkey} |->
                    IF k = pubkey THEN signature ELSE d.signatures[k]]],
           IF pubkey \in DOMAIN d.signatures THEN Some(d.signatures[pubkey]) ELSE None)

\* Disclosure::remove_signature
remove_signature(d, pubkey) ==
    Result([d EXCEPT !.signatures = MapRemove(d.signatures, pubkey)],
           IF pubkey \in DOMAIN d.signatures THEN Some(d.signatures[pubkey]) ELSE None)

\* faulty variant of empty_signatures: the entries are counted after the map
\* is emptied
empty_signatures_counts_after(d) ==
    Result([d EXCEPT !.signatures = EmptySignatures],
           Cardinality(DOMAIN EmptySignatures))

\* Disclosure::empty_signatures
empty_signatures(d) ==
    Result([d EXCEPT !.signatures = EmptySignatures], Cardinality(DOMAIN d.signatures))

(***************************************************************************)
(* Arguments of the calls.                                                 *)
(***************************************************************************)
T1 == Transition(1, 1, TRUE, TRUE)
T2 == Transition(2, 2, TRUE, TRUE)
\* transition 2 with its seal and its state already concealed
T2Concealed == Transition(2, 2, FALSE, FALSE)

BundleA == Bundle(<< <<T1, {0}>> >>, << >>)
BundleB == Bundle(<< <<T1, {0}>>, <<T2, {1}>> >>, << >>)
\* a bundle with nothing left to conceal: transition 1 is known by its node
\* id only and transition 2 is concealed
BundleC == Bundle(<< <<T2Concealed, {0, 1}>> >>, << <<1, {0}>> >>)

\* anchors of both ids; the two of id 2 reveal different leaves, the first
\* of id 1 reveals both
AnchorInputs ==
    { Anchor(1, {1, 2}), Anchor(1, {1}), Anchor(2, {1}), Anchor(2, {2}) }

BundleMapInputs ==
    { << >>,
      << <<1, BundleA>> >>,
      << <<2, BundleC>> >>,
      << <<1, BundleB>>, <<2, BundleA>> >> }

ExtensionInputs == { << >>, << 1 >>, << 2 >>, << 1, 2 >> }

(***************************************************************************)
(* The state machine: one call per step. prev is the disclosure before the *)
(* last call and last the call made with the value it returned.            *)
(***************************************************************************)
Init ==
    /\ version = DefaultDisclosure.version
    /\ anchored_bundles = DefaultDisclosure.anchored_bundles
    /\ extensions = DefaultDisclosure.extensions
    /\ comment = DefaultDisclosure.comment
    /\ signatures = DefaultDisclosure.signatures
    /\ prev = DefaultDisclosure
    /\ last = [op |-> "default", args |-> << >>, ret |-> Unit]
    /\ steps = 0

Call(op, args, r) ==
    /\ version' = r.self.version
    /\ anchored_bundles' = r.self.anchored_bundles
    /\ extensions' = r.self.extensions
    /\ comment' = r.self.comment
    /\ signatures' = r.self.signatures
    /\ prev' = Self
    /\ last' = [op |-> op, args |-> args, ret |-> r.ret]
    /\ steps' = steps + 1

InsertAnchoredBundles ==
    /\ steps < MaxSteps
    /\ \E anchor \in AnchorInputs, bundles \in BundleMapInputs :
          Call("insert_anchored_bundles", << anchor, bundles >>,
               insert_anchored_bundles(Self, anchor, bundles))

\* the sequence kept under a contract id stays within MaxExtLen
InsertExtensions ==
    /\ steps < MaxSteps
    /\ \E contract_id \in ContractIds, exts \in ExtensionInputs :
          /\ Len(exts) + (IF MapContains(extensions, contract_id)
                          THEN Len(MapGet(extensions, contract_id)) ELSE 0) <= MaxExtLen
          /\ Call("insert_extensions", << contract_id, exts >>,
                  insert_extensions(Self, contract_id, exts))

ChangeComment ==
    /\ steps < MaxSteps
    /\ \E text \in CommentTexts :
          Call("change_comment", << text >>, change_comment(Self, text))

RemoveComment ==
    /\ steps < MaxSteps
    /\ Call("remove_comment", << >>, remove_comment(Self))

AddSignature ==
    /\ steps < MaxSteps
    /\ \E pubkey \in PubKeys, signature \in SigValues :
          Call("add_signature", << pubkey, signature >>,
               add_signature(Self, pubkey, signature))

RemoveSignature ==
    /\ steps < MaxSteps
    /\ \E pubkey \in PubKeys :
          Call("remove_signature", << pubkey >>, remove_signature(Self, pubkey))

EmptySigs ==
    /\ steps < MaxSteps
    /\ Call("empty_signatures", << >>, empty_signatures(Self))

ConcealSeals ==
    /\ steps < MaxSteps
    /\ \E seals \in SUBSET SealIds :
          Call("conceal_seals", << seals >>, conceal_seals(Self, seals))

ConcealStateExcept ==
    /\ steps < MaxSteps
    /\ \E seals \in SUBSET SealIds :
          Call("conceal_state_except", << seals >>, conceal_state_except(Self, seals))

ConcealAnchorsExcept ==
    /\ steps < MaxSteps
    /\ \E contracts \in SUBSET ContractIds :
          Call("conceal_anchors_except", << contracts >>,
               conceal_anchors_except(Self, contracts))

Next ==
    \/ InsertAnchoredBundles
    \/ InsertExtensions
    \/ ChangeComment
    \/ RemoveComment
    \/ AddSignature
    \/ RemoveSignature
    \/ EmptySigs
    \/ ConcealSeals
    \/ ConcealStateExcept
    \/ ConcealAnchorsExcept

Spec == Init /\ [][Next]_vars

(***************************************************************************)
(* Properties.                                                             *)
(***************************************************************************)
ContentChanged ==
    \/ prev.anchored_bundles # anchored_bundles
    \/ prev.extensions # extensions
    \/ prev.comment # comment

MutatingOps ==
    {"insert_anchored_bundles", "insert_extensions", "change_comment", "remove_comment"}

ConcealSucceeded ==
    \/ last.op \in {"conceal_seals", "conceal_state_except"}
    \/ last.op = "conceal_anchors_except" /\ last.ret.ok

ConcealedCount == IF last.op = "conceal_anchors_except" THEN last.ret.count ELSE last.ret

\* C1: whenever a call has changed anchored_bundles, extensions or comment,
\* the signature map is empty after it, whatever it held before.
C1_SignaturesNeverSurviveMutation ==
    ContentChanged => signatures = EmptySignatures

\* C2: after insert_anchored_bundles, insert_extensions, change_comment and
\* remove_comment the signature map is empty, for every prior state and
\* argument, also when the call leaves the content as it was.
C2_MutatorsClearSignatures ==
    last.op \in MutatingOps => signatures = EmptySignatures

\* C2 witness: remove_comment on a signed disclosure without a comment
C2_Witness ==
    /\ last.op = "remove_comment"
    /\ prev.comment = None
    /\ prev.signatures # EmptySignatures
    /\ ~ContentChanged
    /\ signatures = EmptySignatures

\* C3 as stated: the DisclosureId after a concealment call that succeeded
\* equals the DisclosureId before it.
C3_ConcealKeepsDisclosureId ==
    ConcealSucceeded => DisclosureId(Self) = DisclosureId(prev)

\* C3 amended: after a concealment call that succeeded the DisclosureId is
\* the one before the call exactly when the call left anchored_bundles as it
\* was, and a call that concealed at least one item gives another
\* DisclosureId.
C3_ConcealChangesDisclosureId ==
    ConcealSucceeded =>
        /\ (DisclosureId(Self) = DisclosureId(prev))
             <=> (anchored_bundles = prev.anchored_bundles)
        /\ ConcealedCount > 0 => DisclosureId(Self) # DisclosureId(prev)

\* C3 witness: a concealment call that concealed at least one item
C3_Witness ==
    /\ ConcealSucceeded
    /\ ConcealedCount > 0
    /\ DisclosureId(Self) # DisclosureId(prev)

\* C4: add_signature and remove_signature change nothing but the entry of
\* the given public key: the other fields, the signatures under other keys,
\* the DisclosureId and sig_hash are as before.
C4_SignatureOpsFrame ==
    last.op \in {"add_signature", "remove_signature"} =>
        /\ version = prev.version
        /\ anchored_bundles = prev.anchored_bundles
        /\ extensions = prev.extensions
        /\ comment = prev.comment
        /\ \A k \in PubKeys \ {last.args[1]} :
              /\ k \in DOMAIN signatures <=> k \in DOMAIN prev.signatures
              /\ k \in DOMAIN signatures => signatures[k] = prev.signatures[k]
        /\ DisclosureId(Self) = DisclosureId(prev)
        /\ sig_hash(Self) = sig_hash(prev)

\* C4 witness: a signature is removed while another key holds one
C4_Witness ==
    /\ last.op = "remove_signature"
    /\ last.args[1] \in DOMAIN prev.signatures
    /\ DOMAIN signatures # {}
    /\ DOMAIN signatures # DOMAIN prev.signatures

\* C5: the DisclosureId depends on version, anchored_bundles and extensions
\* only: whatever the comment and the signatures, it is the DisclosureId of
\* the disclosure with these three fields and no comment and no signature;
\* the comment and signature operations never change it.
C5_IdIgnoresCommentAndSignatures ==
    /\ DisclosureId(Self)
          = DisclosureId(Disclosure(version, anchored_bundles, extensions,
                                    None, EmptySignatures))
    /\ last.op \in {"change_comment", "remove_comment", "add_signature",
                    "remove_signature", "empty_signatures"}
          => DisclosureId(Self) = DisclosureId(prev)

\* C5 witness: the comment of a disclosure holding bundles is replaced
C5_Witness ==
    /\ last.op = "change_comment"
    /\ prev.comment # None
    /\ prev.comment # comment
    /\ anchored_bundles # << >>

\* C6: change_comment on a disclosure without a comment keeps the
\* DisclosureId and changes sig_hash, which hashes the commitment encoding
\* followed, only when a comment is present, by the digest of the comment.
C6_AddingCommentChangesSigHash ==
    (last.op = "change_comment" /\ prev.comment = None) =>
        /\ DisclosureId(Self) = DisclosureId(prev)
        /\ sig_hash(Self) # sig_hash(prev)
        /\ sig_hash(prev).input = CommitEncode(prev)
        /\ sig_hash(Self).input = CommitEncode(Self) \o << Sha256(last.args[1]) >>

\* C6 witness: a comment is added to a disclosure that has none
C6_Witness ==
    /\ last.op = "change_comment"
    /\ prev.comment = None
    /\ comment = Some(last.args[1])
    /\ extensions # << >>

\* C7 as stated: sig_hash after insert_anchored_bundles, insert_extensions,
\* change_comment or remove_comment differs from sig_hash before the call.
C7_SigHashAlwaysChanges ==
    last.op \in MutatingOps => sig_hash(Self) # sig_hash(prev)

\* C7 amended: sig_hash after one of these calls differs from sig_hash
\* before it exactly when the call changed anchored_bundles, extensions or
\* the comment; a call that leaves the content as it was leaves sig_hash
\* as it was.
C7_SigHashChangesWithContent ==
    last.op \in MutatingOps =>
        ((sig_hash(Self) # sig_hash(prev)) <=> ContentChanged)

\* C7 witness: an insertion changes the content and with it sig_hash
C7_Witness ==
    /\ last.op = "insert_extensions"
    /\ ContentChanged
    /\ sig_hash(Self) # sig_hash(prev)
    /\ prev.extensions # << >>

\* C8: insert_anchored_bundles keeps one entry per anchor id: a new id gets
\* (anchor, bundles) as given; a known id keeps one entry with the
\* merge-reveal of the new and the stored anchor and the stored bundle map
\* extended by the new one, the new bundle winning on a shared contract id;
\* the entries of other ids are unchanged.
C8_InsertMergesPerAnchorId ==
    last.op = "insert_anchored_bundles" =>
        LET anchor  == last.args[1]
            bundles == last.args[2]
            id      == AnchorId(anchor)
            old     == prev.anchored_bundles
            new     == anchored_bundles
        IN  /\ Cardinality(MapKeys(new)) = Len(new)
            /\ MapContains(new, id)
            /\ ~MapContains(old, id) => MapGet(new, id) = << anchor, bundles >>
            /\ MapContains(old, id) =>
                  /\ MapGet(new, id)[1] = MergeReveal(anchor, MapGet(old, id)[1])
                  /\ Cardinality(MapKeys(MapGet(new, id)[2])) = Len(MapGet(new, id)[2])
                  /\ \A c \in ContractIds :
                        LET was == MapGet(old, id)[2]
                            now == MapGet(new, id)[2]
                        IN  IF MapContains(bundles, c)
                            THEN MapContains(now, c) /\ MapGet(now, c) = MapGet(bundles, c)
                            ELSE IF MapContains(was, c)
                            THEN MapContains(now, c) /\ MapGet(now, c) = MapGet(was, c)
                            ELSE ~MapContains(now, c)
            /\ \A k \in AnchorIds \ {id} :
                  /\ MapContains(new, k) <=> MapContains(old, k)
                  /\ MapContains(new, k) => MapGet(new, k) = MapGet(old, k)

\* C8 witness: anchor X holding a bundle for contract 1 receives a bundle
\* for contract 2 and holds both in one entry
C8_Witness ==
    /\ last.op = "insert_anchored_bundles"
    /\ MapContains(prev.anchored_bundles, AnchorId(last.args[1]))
    /\ MapKeys(MapGet(prev.anchored_bundles, AnchorId(last.args[1]))[2]) = {1}
    /\ MapKeys(last.args[2]) = {2}
    /\ MapKeys(MapGet(anchored_bundles, AnchorId(last.args[1]))[2]) = {1, 2}
    /\ Len(anchored_bundles) = Len(prev.anchored_bundles)

\* C9: calling insert_anchored_bundles once more with the arguments of the
\* call just made leaves the bundle map of that anchor id and the number of
\* entries as they are after the first call.
C9_InsertTwiceIsInsertOnce ==
    last.op = "insert_anchored_bundles" =>
        LET id    == AnchorId(last.args[1])
            again == insert_anchored_bundles(Self, last.args[1], last.args[2]).self
        IN  /\ MapGet(again.anchored_bundles, id)[2] = MapGet(anchored_bundles, id)[2]
            /\ Len(again.anchored_bundles) = Len(anchored_bundles)

\* C9 witness: the same (anchor, bundles) has been inserted twice in a row
C9_Witness ==
    /\ last.op = "insert_anchored_bundles"
    /\ last.args[2] # << >>
    /\ prev.anchored_bundles =
          insert_anchored_bundles(DefaultDisclosure, last.args[1], last.args[2])
              .self.anchored_bundles
    /\ anchored_bundles = prev.anchored_bundles

\* the keyed content of the fields that are committed to
BundleContent(b) ==
    [revealed |-> MapContent(b.revealed), concealed |-> MapContent(b.concealed)]

BundleMapContent(m) == { << m[i][1], BundleContent(m[i][2]) >> : i \in 1..Len(m) }

LogicalContent(d) ==
    [version |-> d.version,
     anchored_bundles |->
        { << d.anchored_bundles[i][1], d.anchored_bundles[i][2][1],
             BundleMapContent(d.anchored_bundles[i][2][2]) >> :
          i \in 1..Len(d.anchored_bundles) },
     extensions |-> MapContent(d.extensions)]

\* the insertions a caller can make: a call of insert_anchored_bundles
\* reads anchor and bundles, a call of insert_extensions contract_id and exts
InsertCalls ==
    { [op |-> "insert_anchored_bundles", anchor |-> a, bundles |-> b,
       contract_id |-> 1, exts |-> << >>] :
        a \in AnchorInputs, b \in BundleMapInputs }
    \cup
    { [op |-> "insert_extensions", anchor |-> Anchor(1, {}), bundles |-> << >>,
       contract_id |-> c, exts |-> e] :
        c \in ContractIds, e \in ExtensionInputs }

ApplyInsert(d, call) ==
    IF call.op = "insert_anchored_bundles"
    THEN insert_anchored_bundles(d, call.anchor, call.bundles).self
    ELSE insert_extensions(d, call.contract_id, call.exts).self

\* C10: two disclosures built from the same disclosure (the empty one, or
\* the one after a first call) by the same two insertions applied in either
\* order have, whenever their keyed content is the same, the same
\* commitment encoding and the same DisclosureId.
C10_EncodingIgnoresInsertionOrder ==
    steps <= 1 =>
        \A x, y \in InsertCalls :
            LET xy == ApplyInsert(ApplyInsert(Self, x), y)
                yx == ApplyInsert(ApplyInsert(Self, y), x)
            IN  LogicalContent(xy) = LogicalContent(yx) =>
                    /\ CommitEncode(xy) = CommitEncode(yx)
                    /\ DisclosureId(xy) = DisclosureId(yx)

\* C10 witness: anchor 2 was inserted before anchor 1, and the disclosure
\* encodes as the one built in the other order
C10_Witness ==
    /\ steps = 2
    /\ last.op = "insert_anchored_bundles"
    /\ AnchorId(last.args[1]) = 1
    /\ MapKeys(prev.anchored_bundles) = {2}
    /\ prev.extensions = << >>
    /\ LET first == MapGet(prev.anchored_bundles, 2)
           other == insert_anchored_bundles(
                        insert_anchored_bundles(DefaultDisclosure,
                            last.args[1], last.args[2]).self,
                        first[1], first[2]).self
       IN  /\ LogicalContent(other) = LogicalContent(Self)
           /\ CommitEncode(other) = CommitEncode(Self)

\* C11: insert_extensions(contract_id, exts) appends: afterwards the sequence
\* under contract_id is the previous one (empty when the key was absent, and
\* the key then exists even for empty exts) followed by exts in their order;
\* the sequences of the other contract ids, anchored_bundles, comment and
\* version are as before.
C11_InsertExtensionsAppends ==
    last.op = "insert_extensions" =>
        LET contract_id == last.args[1]
            exts == last.args[2]
            old  == IF MapContains(prev.extensions, contract_id)
                    THEN MapGet(prev.extensions, contract_id) ELSE << >>
        IN  /\ MapContains(extensions, contract_id)
            /\ MapGet(extensions, contract_id) = old \o exts
            /\ MapKeys(extensions) = MapKeys(prev.extensions) \cup {contract_id}
            /\ \A c \in MapKeys(prev.extensions) \ {contract_id} :
                   MapGet(extensions, c) = MapGet(prev.extensions, c)
            /\ anchored_bundles = prev.anchored_bundles
            /\ comment = prev.comment
            /\ version = prev.version

\* extensions are appended to a non-empty sequence beside another contract's
C11_Witness ==
    /\ last.op = "insert_extensions"
    /\ MapContains(prev.extensions, last.args[1])
    /\ MapGet(prev.extensions, last.args[1]) # << >>
    /\ last.args[2] # << >>
    /\ MapGet(prev.extensions, last.args[1]) # last.args[2]
    /\ MapKeys(prev.extensions) # {last.args[1]}

\* the narrowing of every anchor held before the last call to the contracts
\* the call was given
NarrowedBefore ==
    [i \in 1..Len(prev.anchored_bundles) |->
        AnchorConcealExcept(prev.anchored_bundles[i][2][1], last.args[1])]

\* C12: conceal_anchors_except(contract_ids) returns Ok(n), n the sum of the
\* counts of narrowing each anchor, exactly when the narrowing succeeds for
\* every anchor of anchored_bundles, and returns the leaf-not-known error
\* whenever it fails for at least one anchor.
C12_ConcealAnchorsPropagatesError ==
    last.op = "conceal_anchors_except" =>
        IF \A i \in DOMAIN NarrowedBefore : NarrowedBefore[i].ok
        THEN last.ret = Ok(SumSeq([i \in DOMAIN NarrowedBefore |-> NarrowedBefore[i].count]))
        ELSE last.ret = LeafNotKnown

\* the error of the second anchor is returned after the first one narrowed
C12_Witness ==
    /\ last.op = "conceal_anchors_except"
    /\ Len(prev.anchored_bundles) = 2
    /\ NarrowedBefore[1].ok
    /\ NarrowedBefore[1].count > 0
    /\ ~NarrowedBefore[2].ok
    /\ last.ret = LeafNotKnown

ConcealOps == {"conceal_seals", "conceal_state_except", "conceal_anchors_except"}

\* nothing is left to conceal in d: no anchor reveals a leaf and no revealed
\* transition has a revealed seal or a revealed state
FullyConcealed(d) ==
    \A i \in 1..Len(d.anchored_bundles) :
        LET anchor  == d.anchored_bundles[i][2][1]
            bundles == d.anchored_bundles[i][2][2]
        IN  /\ anchor.revealed = {}
            /\ \A j \in 1..Len(bundles) :
                   \A k \in 1..Len(bundles[j][2].revealed) :
                       LET t == bundles[j][2].revealed[k][1]
                       IN  ~t.seal /\ ~t.state

\* the last concealment call made once more on the disclosure it left
ConcealAgain ==
    IF last.op = "conceal_seals" THEN conceal_seals(Self, last.args[1])
    ELSE IF last.op = "conceal_state_except" THEN conceal_state_except(Self, last.args[1])
    ELSE LET r == conceal_anchors_except(Self, last.args[1])
         IN  Result(r.self, r.ret.count)

\* C13: a concealment call on a fully concealed disclosure conceals nothing
\* (its count is 0; a conceal_anchors_except that fails counts as nothing
\* concealed) and leaves every anchor, every bundle with all its transitions,
\* the extensions and the comment as they were; and a concealment call
\* repeated right after itself conceals nothing and changes nothing.
C13_ConcealmentIsMonotone ==
    last.op \in ConcealOps =>
        /\ FullyConcealed(prev) =>
               /\ ConcealedCount = 0
               /\ anchored_bundles = prev.anchored_bundles
               /\ extensions = prev.extensions
               /\ comment = prev.comment
        /\ ConcealAgain.ret = 0
        /\ ConcealAgain.self = Self

\* C14: change_comment(text) sets the comment to text and remove_comment()
\* clears it; each returns true exactly when a comment existed before the
\* call; neither changes version, anchored_bundles or extensions.
C14_CommentOps ==
    last.op \in {"change_comment", "remove_comment"} =>
        /\ comment = (IF last.op = "change_comment" THEN Some(last.args[1]) ELSE None)
        /\ last.ret = (prev.comment # None)
        /\ version = prev.version
        /\ anchored_bundles = prev.anchored_bundles
        /\ extensions = prev.extensions

\* the first comment of a disclosure holding anchors and extensions is set
C14_Witness ==
    /\ last.op = "change_comment"
    /\ prev.comment = None
    /\ last.ret = FALSE
    /\ comment = Some(last.args[1])
    /\ anchored_bundles # << >>
    /\ extensions # << >>

\* the signature stored under pubkey before the last call, if any
SignatureBefore(pubkey) ==
    IF pubkey \in DOMAIN prev.signatures THEN Some(prev.signatures[pubkey]) ELSE None

\* C15: add_signature(pubkey, sig) returns the signature stored under pubkey
\* before (none if absent) and the map then holds sig under pubkey;
\* remove_signature(pubkey) returns the previous signature (none if absent)
\* and pubkey is then not in the map; empty_signatures() returns the number
\* of entries held before and leaves the map empty.
C15_SignatureOpsReturn ==
    /\ last.op = "add_signature" =>
           /\ last.ret = SignatureBefore(last.args[1])
           /\ last.args[1] \in DOMAIN signatures
           /\ signatures[last.args[1]] = last.args[2]
    /\ last.op = "remove_signature" =>
           /\ last.ret = SignatureBefore(last.args[1])
           /\ last.args[1] \notin DOMAIN signatures
    /\ last.op = "empty_signatures" =>
           /\ last.ret = Cardinality(DOMAIN prev.signatures)
           /\ signatures = EmptySignatures

\* a map of two signatures is emptied
C15_Witness ==
    /\ last.op = "empty_signatures"
    /\ last.ret = 2
    /\ signatures = EmptySignatures

\* C16: the embedded midstate of DisclosureId is the tagged-hash midstate of
\* "rgb:disclosure", the one of SigHash is the tagged-hash midstate of
\* "rgb:disclosure:sighash", and the two differ. The midstates are fixed
\* bytes, the same in every state: they are computed for the disclosure as
\* constructed.
C16_MidstatesMatchTags ==
    last.op = "default" =>
        /\ DisclosureId(Self).midstate = TaggedHashMidstate(TAG_DISCLOSURE_ID)
        /\ sig_hash(Self).midstate = TaggedHashMidstate(TAG_DISCLOSURE_SIG_HASH)
        /\ DisclosureId(Self).midstate # sig_hash(Self).midstate

\* the constructed disclosure feeds the same bytes to both engines and gets
\* two different hashes
C16_Witness ==
    /\ last.op = "default"
    /\ DisclosureId(Self).input = sig_hash(Self).input
    /\ DisclosureId(Self).midstate = MIDSTATE_DISCLOSURE_ID
    /\ sig_hash(Self).midstate = MIDSTATE_DISCLOSURE_SIG_HASH
    /\ DisclosureId(Self) # sig_hash(Self)

ConcealAnchorsFailed == last.op = "conceal_anchors_except" /\ ~last.ret.ok

\* the position of the first anchor, in anchor id order, that did not narrow
FirstFailing ==
    CHOOSE i \in DOMAIN NarrowedBefore :
        /\ ~NarrowedBefore[i].ok
        /\ \A j \in 1..(i - 1) : NarrowedBefore[j].ok

\* C17 as stated: when conceal_anchors_except returns the leaf-not-known
\* error, every anchor of the aggregate, those of smaller anchor id than the
\* failing one included, is as it was before the call.
C17_FailedConcealChangesNothing ==
    ConcealAnchorsFailed => anchored_bundles = prev.anchored_bundles

\* C17: when conceal_anchors_except returns the leaf-not-known error, the
\* anchors before the first failing one, in anchor id order, stay narrowed to
\* the given contracts and the anchors after it are as before the call; the
\* anchor ids, the bundles, the extensions, the comment, the version and the
\* signatures are as before.
C17_FailedConcealKeepsEarlierNarrowing ==
    ConcealAnchorsFailed =>
        /\ Len(anchored_bundles) = Len(prev.anchored_bundles)
        /\ \A i \in DOMAIN anchored_bundles :
               /\ anchored_bundles[i][1] = prev.anchored_bundles[i][1]
               /\ anchored_bundles[i][2][2] = prev.anchored_bundles[i][2][2]
               /\ i < FirstFailing =>
                      anchored_bundles[i][2][1] = NarrowedBefore[i].anchor
               /\ i > FirstFailing =>
                      anchored_bundles[i][2][1] = prev.anchored_bundles[i][2][1]
        /\ extensions = prev.extensions
        /\ comment = prev.comment
        /\ version = prev.version
        /\ signatures = prev.signatures

\* the call failed on the second anchor and the first one has lost a leaf
C17_Witness ==
    /\ ConcealAnchorsFailed
    /\ FirstFailing = 2
    /\ anchored_bundles[1][2][1] # prev.anchored_bundles[1][2][1]
    /\ anchored_bundles[2] = prev.anchored_bundles[2]

SealConcealOps == {"conceal_seals", "conceal_state_except"}

\* the concealment the last call applies to one transition
ConcealedByLast(t) ==
    ConcealTransition(IF last.op = "conceal_seals" THEN "seals" ELSE "state",
                      t, last.args[1])

\* the counts of concealing, by the last call, every transition that the
\* bundles held before it expose, anchor by anchor and bundle by bundle
TransitionCounts ==
    Flatten([i \in 1..Len(prev.anchored_bundles) |->
        LET bundles == prev.anchored_bundles[i][2][2]
        IN  Flatten([j \in 1..Len(bundles) |->
                LET rs == RevealedIter(bundles[j][2])
                IN  [k \in 1..Len(rs) |-> ConcealedByLast(rs[k][1]).count]])])

\* C18: conceal_seals(seals) and conceal_state_except(seals) return the sum,
\* over every anchor entry, every contract bundle and every transition of
\* the bundle, of the count of that transition's own concealment; each
\* transition is concealed once (the bundle then exposes each transition
\* concealed, with its inputs) and the call does not fail.
C18_ConcealCountIsSum ==
    last.op \in SealConcealOps =>
        /\ last.ret \in Nat
        /\ last.ret = SumSeq(TransitionCounts)
        /\ Len(anchored_bundles) = Len(prev.anchored_bundles)
        /\ \A i \in 1..Len(prev.anchored_bundles) :
               LET before == prev.anchored_bundles[i][2][2]
                   after  == anchored_bundles[i][2][2]
               IN  /\ Len(after) = Len(before)
                   /\ \A j \in 1..Len(before) :
                          MapContent(RevealedIter(after[j][2])) =
                              { << ConcealedByLast(e[1]).transition, e[2] >> :
                                    e \in MapContent(RevealedIter(before[j][2])) }

\* three transitions in two bundles are concealed by one call
C18_Witness ==
    /\ last.op \in SealConcealOps
    /\ last.ret = 3
    /\ \E i \in 1..Len(prev.anchored_bundles) :
           Len(prev.anchored_bundles[i][2][2]) = 2

\* the transitions a bundle holds, each by its node id with its inputs: the
\* exposed ones and the ones held in concealed form only
BundleTransitions(bundle) ==
    [revealed  |-> { << e[1].node, e[2] >> : e \in MapContent(bundle.revealed) },
     concealed |-> MapContent(bundle.concealed)]

\* C19: conceal_seals and conceal_state_except add or remove no anchor id, no
\* contract id and no transition: after the call every bundle holds the same
\* transitions, the exposed ones and the ones held in concealed form only,
\* with the same inputs as before, and the anchors, the extensions, the
\* comment and the version are unchanged.
C19_ConcealKeepsTransitions ==
    last.op \in SealConcealOps =>
        /\ Len(anchored_bundles) = Len(prev.anchored_bundles)
        /\ \A i \in 1..Len(prev.anchored_bundles) :
               LET before == prev.anchored_bundles[i]
                   after  == anchored_bundles[i]
               IN  /\ after[1] = before[1]
                   /\ after[2][1] = before[2][1]
                   /\ Len(after[2][2]) = Len(before[2][2])
                   /\ \A j \in 1..Len(before[2][2]) :
                          /\ after[2][2][j][1] = before[2][2][j][1]
                          /\ BundleTransitions(after[2][2][j][2]) =
                                 BundleTransitions(before[2][2][j][2])
        /\ extensions = prev.extensions
        /\ comment = prev.comment
        /\ version = prev.version

\* C20: in every state reached from the empty disclosure, each key of
\* anchored_bundles is the anchor id of the anchor stored under it
\* (merge-reveal and narrowing keep an anchor's id), and no call removes an
\* entry: the anchor ids held before the call are still held after it.
C20_KeysAreAnchorIds ==
    /\ \A i \in 1..Len(anchored_bundles) :
           anchored_bundles[i][1] = AnchorId(anchored_bundles[i][2][1])
    /\ MapKeys(prev.anchored_bundles) \subseteq MapKeys(anchored_bundles)

\* two anchors, inserted one after the other, have both been narrowed
C20_Witness ==
    /\ last.op = "conceal_anchors_except"
    /\ last.ret.ok
    /\ Len(anchored_bundles) = 2
    /\ \A i \in 1..2 :
           anchored_bundles[i][2][1] # prev.anchored_bundles[i][2][1]

====
